---- MODULE Spec2Model ----
(***************************************************************************)
(* A model of vispy/visuals/image.py: ScalableTexture2D (texture format    *)
(* and scaling decisions) and ImageVisual (mutators, dirty flags and the   *)
(* per-draw rebuild schedule of _prepare_draw).                            *)
(*                                                                         *)
(* Numbers.  Sample values and color limits are integers counted in half   *)
(* units: the value v stands for v/2.  A number is representable as a      *)
(* 32-bit float iff it is even, so narrowing to float32 drops the low bit. *)
(* Values of an integer dtype are whole numbers, hence even.  A quotient   *)
(* is kept exactly, as a reduced fraction.                                 *)
(***************************************************************************)
EXTENDS Integers, Sequences, FiniteSets, TLC

VARIABLES
    phase,                       \* "new" | "ready" | "failed" (constructor outcome)
    data,                        \* ImageVisual._data
    gamma,                       \* ImageVisual._gamma
    method,                      \* ImageVisual._method
    grid,                        \* ImageVisual._grid
    cmap,                        \* ImageVisual._cmap
    interpolation,               \* ImageVisual._interpolation
    need_texture_upload,         \* ImageVisual._need_texture_upload
    need_vertex_update,          \* ImageVisual._need_vertex_update
    need_colortransform_update,  \* ImageVisual._need_colortransform_update
    need_interpolation_update,   \* ImageVisual._need_interpolation_update
    texture,                     \* ImageVisual._texture (a ScalableTexture2D)
    program,                     \* shared_program slots and shader function parameters
    subdiv,                      \* _subdiv_position / _subdiv_texcoord contents
    views,                       \* per view: _need_method_update, _method_used, ...
    last,                        \* the last call: operation, argument, outcome
    since_draw                   \* the calls made since the last completed draw:
                                 \* "none", "clim_gamma" (set clim / set gamma only), "other"

vars == <<phase, data, gamma, method, grid, cmap, interpolation,
          need_texture_upload, need_vertex_update, need_colortransform_update,
          need_interpolation_update, texture, program, subdiv, views, last,
          since_draw>>

----------------------------------------------------------------------------
(* Bounds of the model *)

\* views that may exist besides the visual itself
MaxViews == 1

----------------------------------------------------------------------------
(* Numbers *)

Abs(x) == IF x < 0 THEN -x ELSE x

Sign(x) == IF x < 0 THEN -1 ELSE IF x > 0 THEN 1 ELSE 0

RECURSIVE Gcd(_, _)
Gcd(a, b) == IF b = 0 THEN a ELSE Gcd(b, a % b)

\* np.float32(x), ndarray.astype(np.float32): the low bit is lost
F32(x) == x - (x % 2)

\* a number as the shader or the texture holds it: the exact quotient n/d in
\* lowest terms; d = 0 stands for numpy's inf / -inf / nan (n = 1, -1, 0);
\* tag "a" and "u" are the characters 'auto'[0] and 'auto'[1]
Quot(n, d) ==
    IF d = 0 THEN [tag |-> "num", n |-> Sign(n), d |-> 0]
    ELSE LET g == Gcd(Abs(n), Abs(d))
             s == IF d < 0 THEN -1 ELSE 1
         IN [tag |-> "num", n |-> (s * n) \div g, d |-> (s * d) \div g]

Num(x) == Quot(x, 1)

Chr(c) == [tag |-> c, n |-> 0, d |-> 1]

RECURSIVE SeqMin(_)
SeqMin(s) ==
    IF Len(s) = 1 THEN s[1]
    ELSE LET m == SeqMin(Tail(s)) IN IF s[1] < m THEN s[1] ELSE m

RECURSIVE SeqMax(_)
SeqMax(s) ==
    IF Len(s) = 1 THEN s[1]
    ELSE LET m == SeqMax(Tail(s)) IN IF s[1] > m THEN s[1] ELSE m

----------------------------------------------------------------------------
(* Rasters: numpy arrays of shape (rows, cols) or (rows, cols, bands) *)

NoData == [present |-> FALSE, ndim |-> 0, rows |-> 0, cols |-> 0, bands |-> 0,
           dtype |-> "none", vals |-> <<>>]

Raster(nd, r, c, b, dt, v) ==
    [present |-> TRUE, ndim |-> nd, rows |-> r, cols |-> c, bands |-> b,
     dtype |-> dt, vals |-> v]

\* the rasters a caller assigns; vals are the samples in C order
Rasters ==
    { Raster(2, 1, 2, 1, "uint8", <<0, 8>>),
      Raster(3, 1, 2, 3, "float32", <<0, 2, 4, 1, 3, 5>>) }

\* data.shape
Shape(d) == IF d.ndim = 2 THEN <<d.rows, d.cols>> ELSE <<d.rows, d.cols, d.bands>>

\* data.ndim == 2 or data.shape[2] == 1
IsLuminance(d) == d.ndim = 2 \/ d.bands = 1

\* np.issubdtype(dtype, np.floating) and dtype.itemsize > 4
ShouldCastToF32(dtype) == dtype = "float64"

\* data.astype(np.float32)
AsTypeF32(d) == [d EXCEPT !.dtype = "float32", !.vals = [i \in DOMAIN d.vals |-> F32(d.vals[i])]]

----------------------------------------------------------------------------
(* Color limits *)

\* clim values: None, the string 'auto', or a pair (lo, hi); f32 tells that the
\* pair holds numpy float32 scalars rather than Python numbers
ClimNone == [kind |-> "none", lo |-> 0, hi |-> 0, f32 |-> FALSE]

ClimAuto == [kind |-> "auto", lo |-> 0, hi |-> 0, f32 |-> FALSE]

ClimPair(lo, hi) == [kind |-> "pair", lo |-> lo, hi |-> hi, f32 |-> FALSE]

ClimPairF32(lo, hi) == [kind |-> "pair", lo |-> F32(lo), hi |-> F32(hi), f32 |-> TRUE]

\* arguments that are no clim: a string other than 'auto', a value that is not a pair
ClimBadString == [kind |-> "str", lo |-> 0, hi |-> 0, f32 |-> FALSE]

ClimNotPair == [kind |-> "notpair", lo |-> 0, hi |-> 0, f32 |-> FALSE]

\* the clim arguments callers pass
ClimInputs ==
    { ClimAuto, ClimPair(0, 8), ClimPair(3, 3), ClimBadString, ClimNotPair }

----------------------------------------------------------------------------
(* ScalableTexture2D: format resolution *)

\* an internalformat string, as its sequence of characters
TagR8 == <<"r", "8">>

TagR16 == <<"r", "1", "6">>

TagR32 == <<"r", "3", "2">>

TagR32F == <<"r", "3", "2", "f">>

TagRGB8 == <<"r", "g", "b", "8">>

TagRGBA8 == <<"r", "g", "b", "a", "8">>

\* the dtypes of ScalableTexture2D._texture_dtype_format
SupportedDTypes ==
    {"float32", "float64", "uint8", "uint16", "uint32", "int8", "int16", "int32"}

\* ScalableTexture2D._texture_dtype_format
texture_dtype_format(dtype) ==
    CASE dtype \in {"float32", "float64"} -> TagR32F
      [] dtype \in {"uint8", "int8"} -> TagR8
      [] dtype \in {"uint16", "int16"} -> TagR16
      [] dtype \in {"uint32", "int32"} -> TagR32

\* a texture_format argument: None, 'auto', a numpy dtype or an internalformat string
FmtNone == [kind |-> "none", dtype |-> "none", tag |-> <<>>]

FmtAuto == [kind |-> "auto", dtype |-> "none", tag |-> <<>>]

FmtDType(dt) == [kind |-> "dtype", dtype |-> dt, tag |-> <<>>]

FmtStr(t) == [kind |-> "str", dtype |-> "none", tag |-> t]

\* the result of a call that may raise: err is "none" or the exception
Ok(v, w) == [err |-> "none", val |-> v, warn |-> w]

Raise(e, w) == [err |-> e, val |-> FmtNone, warn |-> w]

\* str.replace(old, new): every occurrence of the character old
RECURSIVE StrReplace(_, _, _)
StrReplace(s, old, new) ==
    IF s = <<>> THEN <<>>
    ELSE (IF Head(s) = old THEN new ELSE <<Head(s)>>) \o StrReplace(Tail(s), old, new)

\* 'rgba'[:num_channels]
RgbaPrefix(num_channels) == SubSeq(<<"r", "g", "b", "a">>, 1, num_channels)

\* ScalableTexture2D._data_num_channels
data_num_channels(d) ==
    IF d.present THEN (IF d.ndim = 3 THEN d.bands ELSE 1) ELSE 4

\* ScalableTexture2D._create_rep_array: np.zeros((1, 1, num_channels)), a
\* float64 array whatever the data is, also when there is no data
create_rep_array(d) ==
    LET num_channels == data_num_channels(d)
    IN Raster(3, 1, 1, num_channels, "float64", [i \in 1..num_channels |-> 0])

\* ScalableTexture2D._handle_auto_texture_format; the result carries the
\* _auto_texture_format flag in val.auto
handle_auto_texture_format(texture_format, d) ==
    IF texture_format.kind = "auto"
    THEN IF ~d.present
         THEN [err |-> "none", val |-> FmtNone, auto |-> FALSE, warn |-> {"auto_no_data"}]
         ELSE [err |-> "none", val |-> FmtDType(d.dtype), auto |-> TRUE, warn |-> {}]
    ELSE [err |-> "none", val |-> texture_format, auto |-> FALSE, warn |-> {}]

\* the outcomes of `data_dtype.itemsize > 4` when data_dtype is a numpy scalar
\* type (np.float64, the keys of _texture_dtype_format) rather than a dtype
\* instance: itemsize is then a descriptor object, and comparing it with a
\* number raises TypeError, or, where the interpreter orders unlike types, is true
TypeItemsizeOutcomes == {"TypeError", "True"}

\* _should_cast_to_f32 called with a numpy scalar type
should_cast_type_to_f32(dtype, cmp) ==
    IF cmp = "TypeError" THEN [err |-> "TypeError", val |-> FALSE, warn |-> {}]
    ELSE IF dtype \in {"float32", "float64"}
    THEN [err |-> "none", val |-> TRUE, warn |-> {"f64_precision"}]
    ELSE [err |-> "none", val |-> FALSE, warn |-> {}]

\* ScalableTexture2D._get_gl_tex_format: the dtype lookup, then the channel
\* substitution; None has no replace method
get_gl_tex_format(texture_format, num_channels, cmp) ==
    IF texture_format.kind = "dtype" /\ texture_format.dtype \notin SupportedDTypes
    THEN Raise("ValueError", {})
    ELSE IF texture_format.kind = "dtype"
            /\ should_cast_type_to_f32(texture_format.dtype, cmp).err # "none"
    THEN Raise(should_cast_type_to_f32(texture_format.dtype, cmp).err, {})
    ELSE IF texture_format.kind = "none"
    THEN Raise("AttributeError", {})
    ELSE LET w == IF texture_format.kind = "dtype"
                  THEN should_cast_type_to_f32(texture_format.dtype, cmp).warn
                  ELSE {}
             t == IF texture_format.kind = "dtype"
                  THEN texture_dtype_format(texture_format.dtype)
                  ELSE texture_format.tag
         IN Ok(FmtStr(StrReplace(t, "r", RgbaPrefix(num_channels))), w)

\* ScalableTexture2D._get_texture_format_for_data
get_texture_format_for_data(d, texture_format, cmp) ==
    IF texture_format.kind = "none"
    THEN [err |-> "none", val |-> FmtNone, auto |-> FALSE, warn |-> {}]
    ELSE LET num_channels == data_num_channels(d)
             h == handle_auto_texture_format(texture_format, d)
             g == get_gl_tex_format(h.val, num_channels, cmp)
         IN [err |-> g.err, val |-> g.val, auto |-> h.auto, warn |-> h.warn \cup g.warn]

\* ScalableTexture2D.__init__: the texture, or the exception it raises
NoTexture ==
    [clim |-> ClimNone, data_dtype |-> "none", data_limits |-> ClimNone,
     scale_texture_gpu |-> FALSE, internalformat |-> FmtNone,
     auto_texture_format |-> FALSE, interpolation |-> "nearest",
     uploaded |-> <<>>]

ScalableTexture2D_init(d, internalformat, interp, cmp) ==
    LET rep == create_rep_array(d)
        f == get_texture_format_for_data(rep, internalformat, cmp)
    IN [err |-> f.err, warn |-> f.warn,
        val |-> [clim |-> ClimNone,
                 data_dtype |-> IF d.present THEN d.dtype ELSE "none",
                 data_limits |-> ClimNone,
                 scale_texture_gpu |-> f.val.kind # "none",
                 internalformat |-> f.val,
                 auto_texture_format |-> f.auto,
                 interpolation |-> interp,
                 uploaded |-> <<>>]]

----------------------------------------------------------------------------
(* ScalableTexture2D: color limits and upload *)

\* a set_clim that never asks for an upload for a numeric clim
set_clim_ignore_limits(tex, clim) ==
    IF clim.kind = "str" \/ clim.kind = "notpair"
    THEN [err |-> "ValueError", tex |-> tex, need_texture_upload |-> FALSE]
    ELSE IF clim.kind = "auto"
    THEN [err |-> "none", tex |-> [tex EXCEPT !.clim = ClimAuto],
          need_texture_upload |-> TRUE]
    ELSE [err |-> "none", tex |-> [tex EXCEPT !.clim = clim],
          need_texture_upload |-> FALSE]

\* ScalableTexture2D.set_clim: the texture with the clim stored and whether a
\* texture upload is needed, or the exception (nothing stored)
set_clim(tex, clim) ==
    IF clim.kind = "str" \/ clim.kind = "notpair"
    THEN [err |-> "ValueError", tex |-> tex, need_texture_upload |-> FALSE]
    ELSE IF clim.kind = "auto"
    THEN [err |-> "none", tex |-> [tex EXCEPT !.clim = ClimAuto],
          need_texture_upload |-> TRUE]
    ELSE [err |-> "none", tex |-> [tex EXCEPT !.clim = clim],
          need_texture_upload |->
              /\ tex.data_limits.kind # "none"
              /\ (clim.lo < tex.data_limits.lo \/ clim.hi > tex.data_limits.hi)]

\* ScalableTexture2D.is_normalized
is_normalized(tex) ==
    IF tex.internalformat.kind = "none" THEN TRUE
    ELSE tex.internalformat.tag[Len(tex.internalformat.tag)] \notin {"f", "i"}

\* the dtypes np.iinfo accepts
IntegerDTypes == {"uint8", "uint16", "int8", "int16"}

\* np.iinfo(dtype).min and .max, in half units
IInfoMin(dtype) ==
    CASE dtype = "uint8" -> 0
      [] dtype = "uint16" -> 0
      [] dtype = "int8" -> -256
      [] dtype = "int16" -> -65536

IInfoMax(dtype) ==
    CASE dtype = "uint8" -> 510
      [] dtype = "uint16" -> 131070
      [] dtype = "int8" -> 254
      [] dtype = "int16" -> 65534

\* ScalableTexture2D.normalize_value(val, input_data_dtype); val is a number
\* or, when the clim is the string 'auto', one of its characters
normalize_value(tex, val, isChar, input_data_dtype) ==
    IF ~is_normalized(tex)
    THEN [err |-> "none", val |-> IF isChar THEN Chr(val) ELSE Num(val)]
    ELSE IF input_data_dtype \notin IntegerDTypes
    THEN [err |-> "ValueError", val |-> Num(0)]
    ELSE IF isChar
    THEN [err |-> "TypeError", val |-> Num(0)]
    ELSE [err |-> "none",
          val |-> Quot(val - IInfoMin(input_data_dtype),
                       IInfoMax(input_data_dtype) - IInfoMin(input_data_dtype))]

\* ScalableTexture2D.clim_normalized: the pair the shader clamps with, or the
\* exception the property raises
clim_normalized(tex) ==
    IF tex.scale_texture_gpu
    THEN LET isChar == tex.clim.kind = "auto"
             lo == normalize_value(tex, IF isChar THEN "a" ELSE tex.clim.lo,
                                   isChar, tex.data_dtype)
             hi == normalize_value(tex, IF isChar THEN "u" ELSE tex.clim.hi,
                                   isChar, tex.data_dtype)
         IN IF lo.err # "none" THEN [err |-> lo.err, val |-> <<Num(0), Num(0)>>]
            ELSE [err |-> hi.err, val |-> <<lo.val, hi.val>>]
    ELSE IF tex.data_limits.kind # "pair"
    THEN [err |-> "TypeError", val |-> <<Num(0), Num(0)>>]
    ELSE IF tex.clim.kind # "pair"
    THEN [err |-> "ValueError", val |-> <<Num(0), Num(0)>>]
    ELSE LET range_min == tex.data_limits.lo
             range_max == tex.data_limits.hi
             np == tex.data_limits.f32 \/ tex.clim.f32
         IN IF range_max = range_min /\ ~np
            THEN [err |-> "ZeroDivisionError", val |-> <<Num(0), Num(0)>>]
            ELSE [err |-> "none",
                  val |-> <<Quot(tex.clim.lo - range_min, range_max - range_min),
                            Quot(tex.clim.hi - range_min, range_max - range_min)>>]

\* a CPU scaling that returns the samples as they are
scale_data_on_cpu_raw(d, clim) == [i \in DOMAIN d.vals |-> Num(d.vals[i])]

\* a CPU scaling whose zero-range branch tests the corner sample of the
\* raster as given, before the minimum is subtracted
scale_data_on_cpu_raster_corner(d, clim) ==
    LET vals == IF d.dtype = "float64" THEN AsTypeF32(d).vals ELSE d.vals
        shifted == [i \in DOMAIN vals |-> vals[i] - clim.lo]
    IN IF clim.hi - clim.lo > 0
       THEN [i \in DOMAIN vals |-> Quot(shifted[i], clim.hi - clim.lo)]
       ELSE [i \in DOMAIN vals |-> IF vals[1] # 0 THEN Num(1) ELSE Num(0)]

\* ScalableTexture2D._scale_data_on_cpu(data, clim): the samples as uploaded
scale_data_on_cpu(d, clim) ==
    LET vals == IF d.dtype = "float64" THEN AsTypeF32(d).vals ELSE d.vals
        shifted == [i \in DOMAIN vals |-> vals[i] - clim.lo]
    IN IF clim.hi - clim.lo > 0
       THEN [i \in DOMAIN vals |-> Quot(shifted[i], clim.hi - clim.lo)]
       ELSE [i \in DOMAIN vals |-> IF shifted[1] # 0 THEN Num(1) ELSE Num(0)]

\* the samples of a raster uploaded as they are
RawSamples(d) == [i \in DOMAIN d.vals |-> Num(d.vals[i])]

\* an upload that stores the data's dtype and samples but leaves the clim as set
texture_set_data_keep_clim(tex, d) ==
    [tex EXCEPT !.data_dtype = d.dtype,
                !.data_limits = IF tex.scale_texture_gpu THEN ClimNone ELSE tex.clim,
                !.uploaded = RawSamples(d)]

\* an upload that records the resolved clim as data limits in either
\* scaling mode
texture_set_data_always_limits(tex, d) ==
    LET is_auto == tex.clim.kind = "auto"
        lum == IsLuminance(d)
        clim == IF lum
                THEN (IF is_auto
                      THEN ClimPairF32(SeqMin(d.vals), SeqMax(d.vals))
                      ELSE ClimPairF32(tex.clim.lo, tex.clim.hi))
                ELSE (IF is_auto THEN ClimPair(0, 2) ELSE tex.clim)
        up == IF lum /\ ~tex.scale_texture_gpu
              THEN scale_data_on_cpu(d, clim)
              ELSE RawSamples(d)
    IN [tex EXCEPT !.data_dtype = d.dtype,
                   !.clim = clim,
                   !.data_limits = clim,
                   !.uploaded = up]

\* ScalableTexture2D.set_data(data): resolve the clim, scale on the CPU if
\* needed, record the data limits, upload
texture_set_data(tex, d) ==
    LET is_auto == tex.clim.kind = "auto"
        lum == IsLuminance(d)
        clim == IF lum
                THEN (IF is_auto
                      THEN ClimPairF32(SeqMin(d.vals), SeqMax(d.vals))
                      ELSE ClimPairF32(tex.clim.lo, tex.clim.hi))
                ELSE (IF is_auto THEN ClimPair(0, 2) ELSE tex.clim)
        up == IF lum /\ ~tex.scale_texture_gpu
              THEN scale_data_on_cpu(d, clim)
              ELSE RawSamples(d)
    IN [tex EXCEPT !.data_dtype = d.dtype,
                   !.clim = clim,
                   !.data_limits = IF tex.scale_texture_gpu THEN ClimNone ELSE clim,
                   !.uploaded = up]

----------------------------------------------------------------------------
(* ImageVisual: catalogs and argument sets *)

\* the interpolation names of the catalog (ImageVisual._interpolation_names)
InterpolationNames ==
    {"nearest", "bilinear", "hanning", "hamming", "hermite", "kaiser", "quadric",
     "bicubic", "catrom", "mitchell", "spline16", "spline36", "gaussian",
     "bessel", "sinc", "lanczos", "blackman"}

\* the arguments callers pass
InterpolationInputs == {"nearest", "bilinear", "bicubic", "cubic"}

MethodInputs == {"auto", "subdivide", "impostor", "quad"}

ValidMethods == {"auto", "subdivide", "impostor"}

GammaInputs == {-2, 0, 3}

CmapInputs == {"viridis", "grays"}

FormatInputs == {FmtNone, FmtAuto, FmtStr(TagR8), FmtDType("bool")}

Grids == {<<1, 1>>}

\* ImageVisual.size: data.shape[:2][::-1]
Size(d) == <<d.cols, d.rows>>

----------------------------------------------------------------------------
(* The color transform chain *)

NoChain == [present |-> FALSE, stages |-> <<>>, clim |-> <<Num(0), Num(0)>>,
            gamma |-> 0, cmap |-> "none"]

\* _build_color_transform(data, clim, gamma, cmap)
build_color_transform(d, clim, g, cm) ==
    IF IsLuminance(d)
    THEN [present |-> TRUE, stages |-> <<"c2l", "apply_clim_float", "apply_gamma_float", "cmap">>,
          clim |-> clim, gamma |-> g, cmap |-> cm]
    ELSE [present |-> TRUE, stages |-> <<"null_color_transform", "apply_clim", "apply_gamma">>,
          clim |-> clim, gamma |-> g, cmap |-> "none"]

----------------------------------------------------------------------------
(* Views *)

\* a view created with its method selection marked as done
init_view_clean(linear) ==
    [need_method_update |-> FALSE, method_used |-> "none", linear |-> linear,
     method_uniform |-> -1, a_position |-> "none", a_texcoord |-> "none",
     vert_transform |-> "none", frag_transform |-> "none"]

\* ImageVisual._init_view, with the view's program as Visual.view creates it
init_view(linear) ==
    [need_method_update |-> TRUE, method_used |-> "none", linear |-> linear,
     method_uniform |-> -1, a_position |-> "none", a_texcoord |-> "none",
     vert_transform |-> "none", frag_transform |-> "none"]

\* ImageVisual._prepare_transforms(view)
prepare_transforms(view) ==
    IF view.method_used = "subdivide"
    THEN [view EXCEPT !.vert_transform = "transform", !.frag_transform = "null"]
    ELSE [view EXCEPT !.vert_transform = "null", !.frag_transform = "inverse"]

----------------------------------------------------------------------------
(* The rebuild steps of a draw.  A step maps the visual's state S (the      *)
(* variables, the view drawn as S.view, the exception raised so far as      *)
(* S.err) to the state after it.                                            *)

\* a rebuild of the lookup function that leaves the texture's filter mode alone
build_interpolation_keep_filter(S) ==
    LET fn == S.interpolation
        kernel == fn \notin {"nearest", "bilinear"}
    IN [S EXCEPT !.program.get_data = fn,
                 !.program.u_kernel = IF kernel THEN TRUE ELSE @,
                 !.program.shape =
                     IF kernel
                     THEN [f \in DOMAIN @ \cup {fn} |-> IF f = fn THEN Size(S.data) ELSE @[f]]
                     ELSE @,
                 !.need_interpolation_update = FALSE]

\* ImageVisual._build_interpolation
build_interpolation(S) ==
    LET fn == S.interpolation
        kernel == fn \notin {"nearest", "bilinear"}
        texture_interpolation == IF fn = "bilinear" THEN "linear" ELSE "nearest"
    IN [S EXCEPT !.program.get_data = fn,
                 !.program.u_kernel = IF kernel THEN TRUE ELSE @,
                 !.program.shape =
                     IF kernel
                     THEN [f \in DOMAIN @ \cup {fn} |-> IF f = fn THEN Size(S.data) ELSE @[f]]
                     ELSE @,
                 !.texture.interpolation = texture_interpolation,
                 !.need_interpolation_update = FALSE]

\* ImageVisual._build_texture
build_texture(S) ==
    [S EXCEPT !.texture = texture_set_data(S.texture, S.data),
              !.need_colortransform_update = TRUE,
              !.need_texture_upload = FALSE]

\* a rebuild that keeps the stages of a chain that exists and replaces its
\* parameters only
build_colortransform_keep_topology(S) ==
    LET cn == clim_normalized(S.texture)
        fresh == build_color_transform(S.data, cn.val, S.gamma, S.cmap)
    IN IF cn.err # "none" THEN [S EXCEPT !.err = cn.err]
       ELSE [S EXCEPT !.program.color_transform =
                          IF S.program.color_transform.present
                          THEN [fresh EXCEPT
                                   !.stages = S.program.color_transform.stages]
                          ELSE fresh,
                      !.need_colortransform_update = FALSE]

\* the colortransform block of ImageVisual._prepare_draw
build_colortransform(S) ==
    LET cn == clim_normalized(S.texture)
    IN IF cn.err # "none" THEN [S EXCEPT !.err = cn.err]
       ELSE [S EXCEPT !.program.color_transform =
                          build_color_transform(S.data, cn.val, S.gamma, S.cmap),
                      !.need_colortransform_update = FALSE]

\* ImageVisual._build_vertex_data
build_vertex_data(S) ==
    [S EXCEPT !.subdiv = [built |-> TRUE, grid |-> S.grid, size |-> Size(S.data)],
              !.need_vertex_update = FALSE]

\* ImageVisual._update_method(view)
update_method(S) ==
    LET m == IF S.method = "auto"
             THEN (IF S.view.linear THEN "subdivide" ELSE "impostor")
             ELSE S.method
        v1 == [S.view EXCEPT !.method_used = m]
    IN IF m = "subdivide"
       THEN [S EXCEPT !.view = prepare_transforms(
                                  [v1 EXCEPT !.method_uniform = 0,
                                             !.a_position = "subdiv",
                                             !.a_texcoord = "subdiv",
                                             !.need_method_update = FALSE]),
                      !.program.image_size = Size(S.data)]
       ELSE IF m = "impostor"
       THEN [S EXCEPT !.view = prepare_transforms(
                                  [v1 EXCEPT !.method_uniform = 1,
                                             !.a_position = "impostor",
                                             !.a_texcoord = "impostor",
                                             !.need_method_update = FALSE]),
                      !.program.image_size = Size(S.data)]
       ELSE [S EXCEPT !.view = v1, !.err = "ValueError"]

\* a schedule that rebuilds the color transform before the texture upload
DrawOrder_ChainFirst == <<"interpolation", "colortransform", "texture", "vertex", "method">>

\* a schedule that rebuilds the color transform before and after the upload
DrawOrder_ChainTwice ==
    <<"interpolation", "colortransform", "texture", "colortransform", "vertex", "method">>

\* the order in which ImageVisual._prepare_draw tests the flags
DrawOrder == <<"interpolation", "texture", "colortransform", "vertex", "method">>

\* a schedule whose method flag is shared by the views: once a method selection
\* has written the image size into the shared program, no view selects again
StepFlag_SharedMethod(S, step) ==
    CASE step = "interpolation" -> S.need_interpolation_update
      [] step = "texture" -> S.need_texture_upload
      [] step = "colortransform" -> S.need_colortransform_update
      [] step = "vertex" -> S.need_vertex_update
      [] step = "method" -> S.view.need_method_update /\ S.program.image_size = <<>>

\* the flag a step of _prepare_draw tests
StepFlag(S, step) ==
    CASE step = "interpolation" -> S.need_interpolation_update
      [] step = "texture" -> S.need_texture_upload
      [] step = "colortransform" -> S.need_colortransform_update
      [] step = "vertex" -> S.need_vertex_update
      [] step = "method" -> S.view.need_method_update

\* the rebuild a step of _prepare_draw calls
StepBody(S, step) ==
    CASE step = "interpolation" -> build_interpolation(S)
      [] step = "texture" -> build_texture(S)
      [] step = "colortransform" -> build_colortransform(S)
      [] step = "vertex" -> build_vertex_data(S)
      [] step = "method" -> update_method(S)

\* the steps of _prepare_draw in order; an exception ends the draw
RECURSIVE RunSteps(_, _)
RunSteps(S, order) ==
    IF order = <<>> \/ S.err # "none" THEN S
    ELSE IF StepFlag(S, Head(order))
    THEN RunSteps(StepBody([S EXCEPT !.steps = Append(@, Head(order))], Head(order)),
                  Tail(order))
    ELSE RunSteps(S, Tail(order))

----------------------------------------------------------------------------
(* The state before and after construction *)

\* the record of a call: the operation, its argument (a name and/or a number),
\* the exception it raised ("none" if none), what it returned, the warnings it
\* emitted, the rebuild steps it ran, and whether it wrote a parameter into
\* the existing color transform chain
Call(op, arg, n, err) ==
    [op |-> op, arg |-> arg, n |-> n, err |-> err, ret |-> "none", warn |-> {},
     steps |-> <<>>, pushed |-> FALSE]

NoProgram ==
    [color_transform |-> NoChain, get_data |-> "none", image_size |-> <<>>,
     u_kernel |-> FALSE, shape |-> [f \in {} |-> <<>>]]

NoSubdiv == [built |-> FALSE, grid |-> <<>>, size |-> <<>>]

Init ==
    /\ phase = "new"
    /\ data = NoData
    /\ gamma = 0
    /\ method = "none"
    /\ grid = <<>>
    /\ cmap = "none"
    /\ interpolation = "none"
    /\ need_texture_upload = FALSE
    /\ need_vertex_update = FALSE
    /\ need_colortransform_update = FALSE
    /\ need_interpolation_update = FALSE
    /\ texture = NoTexture
    /\ program = NoProgram
    /\ subdiv = NoSubdiv
    /\ views = <<>>
    /\ last = Call("none", "", 0, "none")
    /\ since_draw = "other"

\* ImageVisual.__init__ raising: no visual exists
\* what the record of a constructor call keeps of its arguments: the
\* texture_format (the dtype's name for an element type, else the kind of
\* request) and the number of bands of the data (0 for no data)
FmtName(tf) == IF tf.kind = "dtype" THEN tf.dtype ELSE tf.kind

InitBands(d) == IF d.present THEN data_num_channels(d) ELSE 0

ConstructFails(arg, n, err, warn) ==
    /\ phase' = "failed"
    /\ last' = [Call("init", arg, n, err) EXCEPT !.warn = warn]
    /\ UNCHANGED <<data, gamma, method, grid, cmap, interpolation,
                   need_texture_upload, need_vertex_update,
                   need_colortransform_update, need_interpolation_update,
                   texture, program, subdiv, views, since_draw>>

\* ImageVisual.__init__(data, method, grid, cmap, clim, gamma, interpolation,
\* texture_format); linear is the linearity of the visual's own transform, cmp
\* the outcome of comparing a scalar type's itemsize
Construct(d, m, gr, cm, c, g, i, tf, linear, cmp) ==
    /\ phase = "new"
    /\ IF i \notin InterpolationNames
       THEN ConstructFails(FmtName(tf), InitBands(d), "ValueError", {})
       ELSE LET t == ScalableTexture2D_init(
                         d, tf, IF i = "bilinear" THEN "linear" ELSE "nearest", cmp)
                sc == set_clim(t.val, c)
                cast == d.present /\ ShouldCastToF32(d.dtype)
            IN IF t.err # "none"
               THEN ConstructFails(FmtName(tf), InitBands(d), t.err, t.warn)
               ELSE IF sc.err # "none"
               THEN ConstructFails(FmtName(tf), InitBands(d), sc.err, t.warn)
               ELSE /\ phase' = "ready"
                    /\ data' = IF cast THEN AsTypeF32(d) ELSE d
                    /\ gamma' = g
                    /\ method' = m
                    /\ grid' = gr
                    /\ cmap' = cm
                    /\ interpolation' = i
                    /\ need_texture_upload' = TRUE
                    /\ need_vertex_update' = TRUE
                    /\ need_colortransform_update' = TRUE
                    /\ need_interpolation_update' = TRUE
                    /\ texture' = sc.tex
                    /\ program' = NoProgram
                    /\ subdiv' = NoSubdiv
                    /\ views' = <<init_view(linear)>>
                    /\ last' = [Call("init", FmtName(tf), InitBands(d), "none") EXCEPT
                                   !.warn = t.warn \cup
                                            (IF cast THEN {"f64_precision"} ELSE {})]
                    /\ since_draw' = "other"

----------------------------------------------------------------------------
(* The mutators *)

\* ImageVisual.set_data(image)
SetData(r) ==
    /\ phase = "ready"
    /\ LET d == IF ShouldCastToF32(r.dtype) THEN AsTypeF32(r) ELSE r
       IN /\ need_vertex_update' =
                 (need_vertex_update \/ ~data.present \/ Shape(data) # Shape(d))
          /\ data' = d
          /\ need_texture_upload' = TRUE
          /\ last' = [Call("set_data", r.dtype, 0, "none") EXCEPT
                         !.warn = IF ShouldCastToF32(r.dtype)
                                  THEN {"f64_precision"} ELSE {}]
    /\ since_draw' = "other"
    /\ UNCHANGED <<phase, gamma, method, grid, cmap, interpolation,
                   need_colortransform_update, need_interpolation_update,
                   texture, program, subdiv, views>>

\* ImageVisual.view()
View(linear) ==
    /\ phase = "ready"
    /\ Len(views) < 1 + MaxViews
    /\ views' = Append(views, init_view(linear))
    /\ last' = Call("view", "", Len(views) + 1, "none")
    /\ since_draw' = "other"
    /\ UNCHANGED <<phase, data, gamma, method, grid, cmap, interpolation,
                   need_texture_upload, need_vertex_update,
                   need_colortransform_update, need_interpolation_update,
                   texture, program, subdiv>>

\* ImageVisual.clim (setter)
SetClim(c) ==
    /\ phase = "ready"
    /\ since_draw' = IF since_draw = "other" THEN "other" ELSE "clim_gamma"
    /\ LET sc == set_clim(texture, c)
           cn == clim_normalized(sc.tex)
       IN IF sc.err # "none"
          THEN /\ last' = Call("set_clim", c.kind, 0, sc.err)
               /\ UNCHANGED <<texture, need_texture_upload, program>>
          ELSE /\ texture' = sc.tex
               /\ need_texture_upload' = (need_texture_upload \/ sc.need_texture_upload)
               /\ IF need_colortransform_update
                  THEN /\ last' = Call("set_clim", c.kind, 0, "none")
                       /\ UNCHANGED program
                  ELSE IF cn.err # "none"
                  THEN /\ last' = Call("set_clim", c.kind, 0, cn.err)
                       /\ UNCHANGED program
                  ELSE /\ program' = [program EXCEPT !.color_transform.clim = cn.val]
                       /\ last' = [Call("set_clim", c.kind, 0, "none") EXCEPT
                                      !.pushed = TRUE]
    /\ UNCHANGED <<phase, data, gamma, method, grid, cmap, interpolation,
                   need_vertex_update, need_colortransform_update,
                   need_interpolation_update, subdiv, views>>

\* ImageVisual.cmap (setter)
SetCmap(cm) ==
    /\ phase = "ready"
    /\ cmap' = cm
    /\ need_colortransform_update' = TRUE
    /\ last' = Call("set_cmap", cm, 0, "none")
    /\ since_draw' = "other"
    /\ UNCHANGED <<phase, data, gamma, method, grid, interpolation,
                   need_texture_upload, need_vertex_update,
                   need_interpolation_update, texture, program, subdiv, views>>

\* a gamma setter that leaves the write to the next draw: it stores the value
\* and asks for a rebuild of the chain
SetGamma_Deferred(value) ==
    /\ phase = "ready"
    /\ since_draw' = IF since_draw = "other" THEN "other" ELSE "clim_gamma"
    /\ IF value <= 0
       THEN /\ last' = Call("set_gamma", "", value, "ValueError")
            /\ UNCHANGED <<gamma, need_colortransform_update>>
       ELSE /\ gamma' = value
            /\ last' = Call("set_gamma", "", value, "none")
            /\ need_colortransform_update' = TRUE
    /\ UNCHANGED <<phase, data, method, grid, cmap, interpolation,
                   need_texture_upload, need_vertex_update,
                   need_interpolation_update, texture, program, subdiv, views>>

\* a gamma setter that stores the value and touches neither the chain nor a flag
SetGamma_StoreOnly(value) ==
    /\ phase = "ready"
    /\ since_draw' = IF since_draw = "other" THEN "other" ELSE "clim_gamma"
    /\ IF value <= 0
       THEN /\ last' = Call("set_gamma", "", value, "ValueError")
            /\ UNCHANGED gamma
       ELSE /\ gamma' = value
            /\ last' = Call("set_gamma", "", value, "none")
    /\ UNCHANGED <<phase, data, method, grid, cmap, interpolation,
                   need_texture_upload, need_vertex_update,
                   need_colortransform_update, need_interpolation_update,
                   texture, program, subdiv, views>>

\* ImageVisual.gamma (setter)
SetGamma(value) ==
    /\ phase = "ready"
    /\ since_draw' = IF since_draw = "other" THEN "other" ELSE "clim_gamma"
    /\ IF value <= 0
       THEN /\ last' = Call("set_gamma", "", value, "ValueError")
            /\ UNCHANGED <<gamma, program>>
       ELSE /\ gamma' = value
            /\ last' = [Call("set_gamma", "", value, "none") EXCEPT
                           !.pushed = ~need_colortransform_update]
            /\ IF need_colortransform_update
               THEN UNCHANGED program
               ELSE program' = [program EXCEPT !.color_transform.gamma = value]
    /\ UNCHANGED <<phase, data, method, grid, cmap, interpolation,
                   need_texture_upload, need_vertex_update,
                   need_colortransform_update, need_interpolation_update,
                   texture, subdiv, views>>

\* ImageVisual.method (setter)
SetMethod(m) ==
    /\ phase = "ready"
    /\ IF method # m
       THEN /\ method' = m
            /\ need_vertex_update' = TRUE
       ELSE UNCHANGED <<method, need_vertex_update>>
    /\ last' = Call("set_method", m, IF method # m THEN 1 ELSE 0, "none")
    /\ since_draw' = "other"
    /\ UNCHANGED <<phase, data, gamma, grid, cmap, interpolation,
                   need_texture_upload, need_colortransform_update,
                   need_interpolation_update, texture, program, subdiv, views>>

\* an interpolation setter that stores the name before it validates it
SetInterpolation_StoreFirst(i) ==
    /\ phase = "ready"
    /\ since_draw' = "other"
    /\ last' = Call("set_interpolation", i, 0,
                    IF i \notin InterpolationNames THEN "ValueError" ELSE "none")
    /\ IF interpolation # i
       THEN /\ interpolation' = i
            /\ need_interpolation_update' = TRUE
       ELSE UNCHANGED <<interpolation, need_interpolation_update>>
    /\ UNCHANGED <<phase, data, gamma, method, grid, cmap,
                   need_texture_upload, need_vertex_update,
                   need_colortransform_update, texture, program, subdiv, views>>

\* ImageVisual.interpolation (setter)
SetInterpolation(i) ==
    /\ phase = "ready"
    /\ since_draw' = "other"
    /\ IF i \notin InterpolationNames
       THEN /\ last' = Call("set_interpolation", i, 0, "ValueError")
            /\ UNCHANGED <<interpolation, need_interpolation_update>>
       ELSE /\ last' = Call("set_interpolation", i, 0, "none")
            /\ IF interpolation # i
               THEN /\ interpolation' = i
                    /\ need_interpolation_update' = TRUE
               ELSE UNCHANGED <<interpolation, need_interpolation_update>>
    /\ UNCHANGED <<phase, data, gamma, method, grid, cmap,
                   need_texture_upload, need_vertex_update,
                   need_colortransform_update, texture, program, subdiv, views>>

----------------------------------------------------------------------------
(* The draw *)

\* the visual's state as the rebuild steps of a draw on view v see it
DrawState(v) ==
    [data |-> data, gamma |-> gamma, method |-> method, grid |-> grid, cmap |-> cmap,
     interpolation |-> interpolation,
     need_texture_upload |-> need_texture_upload,
     need_vertex_update |-> need_vertex_update,
     need_colortransform_update |-> need_colortransform_update,
     need_interpolation_update |-> need_interpolation_update,
     texture |-> texture, program |-> program, subdiv |-> subdiv,
     view |-> views[v], err |-> "none", steps |-> <<>>]

\* a draw that never tests for a raster
draw_skipped_never(d) == FALSE

\* the test that ends ImageVisual._prepare_draw at once: self._data is None
draw_skipped(d) == ~d.present

\* ImageVisual._prepare_draw(view)
PrepareDraw(v) ==
    /\ phase = "ready"
    /\ v \in DOMAIN views
    /\ IF draw_skipped(data)
       THEN /\ last' = [Call("draw", since_draw, v, "none") EXCEPT !.ret = "False"]
            /\ UNCHANGED <<need_texture_upload, need_vertex_update,
                           need_colortransform_update, need_interpolation_update,
                           texture, program, subdiv, views, since_draw>>
       ELSE LET S == RunSteps(DrawState(v), DrawOrder)
            IN /\ need_texture_upload' = S.need_texture_upload
               /\ need_vertex_update' = S.need_vertex_update
               /\ need_colortransform_update' = S.need_colortransform_update
               /\ need_interpolation_update' = S.need_interpolation_update
               /\ texture' = S.texture
               /\ program' = S.program
               /\ subdiv' = S.subdiv
               /\ views' = [views EXCEPT ![v] = S.view]
               /\ last' = [Call("draw", since_draw, v, S.err) EXCEPT
                              !.ret = IF S.err = "none" THEN "None" ELSE "none",
                              !.steps = S.steps]
               /\ since_draw' = IF S.err = "none" THEN "none" ELSE "other"
    /\ UNCHANGED <<phase, data, gamma, method, grid, cmap, interpolation>>

----------------------------------------------------------------------------

----------------------------------------------------------------------------
(* Callers.  A caller draws the arguments of its calls from the sets of In. *)

CallInit(In) ==
    \E d \in In.rasters \cup {NoData}, m \in In.methods, gr \in Grids,
       c \in In.clims, i \in In.interpolations, tf \in In.formats,
       linear \in In.linear, cmp \in TypeItemsizeOutcomes :
        Construct(d, m, gr, "viridis", c, 2, i, tf, linear, cmp)

CallSetData(In) == \E r \in In.rasters : SetData(r)

CallView(In) == \E linear \in In.linear : View(linear)

CallSetClim(In) == \E c \in In.clims : SetClim(c)

CallSetCmap(In) == \E cm \in In.cmaps : SetCmap(cm)

CallSetGamma(In) == \E g \in In.gammas : SetGamma(g)

CallSetMethod(In) == \E m \in In.methods : SetMethod(m)

CallSetInterpolation(In) == \E i \in In.interpolations : SetInterpolation(i)

CallDraw == \E v \in DOMAIN views : PrepareDraw(v)

\* the caller of the rebuild schedule: every mutator, few arguments each, the
\* visual drawn through its own view only
SchedInputs ==
    [rasters |-> {Raster(2, 1, 2, 1, "uint8", <<0, 8>>)},
     clims |-> {ClimAuto, ClimPair(3, 3)}, gammas |-> {3},
     cmaps |-> {"viridis"}, formats |-> {FmtNone, FmtStr(TagR8)},
     interpolations |-> {"nearest", "bicubic"}, methods |-> {"auto", "impostor"},
     linear |-> {TRUE}]

Next ==
    \/ CallInit(SchedInputs)
    \/ CallSetData(SchedInputs)
    \/ CallSetClim(SchedInputs)
    \/ CallSetCmap(SchedInputs)
    \/ CallSetGamma(SchedInputs)
    \/ CallSetMethod(SchedInputs)
    \/ CallSetInterpolation(SchedInputs)
    \/ CallDraw

Spec == Init /\ [][Next]_vars

\* the caller of the color pipeline: data, color limits, gamma, colormap and
\* texture format vary
ColorInputs ==
    [rasters |-> Rasters, clims |-> {ClimAuto, ClimPair(0, 8), ClimPair(3, 3)},
     gammas |-> {2, 3}, cmaps |-> {"grays"}, formats |-> FormatInputs,
     interpolations |-> {"nearest"}, methods |-> {"auto"}, linear |-> {TRUE}]

NextColor ==
    \/ CallInit(ColorInputs)
    \/ CallSetData(ColorInputs)
    \/ CallSetClim(ColorInputs)
    \/ CallSetCmap(ColorInputs)
    \/ CallSetGamma(ColorInputs)
    \/ CallDraw

SpecColor == Init /\ [][NextColor]_vars

\* the caller of method selection: rasters of two sizes, every method name,
\* several views with linear and non-linear transforms
MethodCallInputs ==
    [rasters |-> {Raster(2, 1, 2, 1, "uint8", <<0, 8>>),
                  Raster(2, 2, 1, 1, "uint8", <<0, 8>>)},
     clims |-> {ClimAuto}, gammas |-> {3}, cmaps |-> {"grays"},
     formats |-> {FmtNone}, interpolations |-> {"nearest"},
     methods |-> MethodInputs, linear |-> BOOLEAN]

NextMethod ==
    \/ CallInit(MethodCallInputs)
    \/ CallSetData(MethodCallInputs)
    \/ CallView(MethodCallInputs)
    \/ CallSetMethod(MethodCallInputs)
    \/ CallDraw

SpecMethod == Init /\ [][NextMethod]_vars

\* the caller that passes invalid arguments
RejectInputs ==
    [rasters |-> {Raster(2, 1, 2, 1, "uint8", <<0, 8>>)},
     clims |-> ClimInputs, gammas |-> GammaInputs, cmaps |-> {"grays"},
     formats |-> {FmtNone, FmtAuto}, interpolations |-> InterpolationInputs,
     methods |-> {"auto"}, linear |-> {TRUE}]

NextReject ==
    \/ CallInit(RejectInputs)
    \/ CallSetData(RejectInputs)
    \/ CallSetClim(RejectInputs)
    \/ CallSetGamma(RejectInputs)
    \/ CallSetInterpolation(RejectInputs)
    \/ CallDraw

SpecReject == Init /\ [][NextReject]_vars

\* the caller of the interpolation: rasters of two sizes, hardware filters and
\* convolution kernels
InterpInputs ==
    [rasters |-> {Raster(2, 1, 2, 1, "uint8", <<0, 8>>),
                  Raster(2, 2, 1, 1, "uint8", <<0, 8>>)},
     clims |-> {ClimAuto}, gammas |-> {3}, cmaps |-> {"grays"},
     formats |-> {FmtNone},
     interpolations |-> {"nearest", "bilinear", "bicubic", "lanczos"},
     methods |-> {"auto"}, linear |-> {TRUE}]

NextInterp ==
    \/ CallInit(InterpInputs)
    \/ CallSetData(InterpInputs)
    \/ CallSetInterpolation(InterpInputs)
    \/ CallDraw

SpecInterp == Init /\ [][NextInterp]_vars

\* the caller of format resolution: rasters of one, three and four bands,
\* every kind of texture_format request
FormatCallInputs ==
    [rasters |-> {Raster(2, 1, 2, 1, "uint8", <<0, 8>>),
                  Raster(3, 1, 2, 3, "float32", <<0, 2, 4, 1, 3, 5>>),
                  Raster(3, 1, 1, 4, "uint8", <<0, 2, 4, 8>>)},
     clims |-> {ClimAuto}, gammas |-> {3}, cmaps |-> {"grays"},
     formats |-> {FmtAuto, FmtStr(TagR8), FmtStr(TagRGB8), FmtStr(TagRGBA8),
                  FmtStr(TagR32F)}
                 \cup {FmtDType(dt) : dt \in SupportedDTypes \cup {"bool", "int64"}},
     interpolations |-> {"nearest"}, methods |-> {"auto"}, linear |-> {TRUE}]

NextFormat ==
    \/ CallInit(FormatCallInputs)
    \/ CallSetData(FormatCallInputs)
    \/ CallDraw

SpecFormat == Init /\ [][NextFormat]_vars

\* the caller of CPU scaling: single-band rasters with a zero and a non-zero
\* corner sample, constant and not, and color limits of positive, zero and
\* negative range
ScaleInputs ==
    [rasters |-> {Raster(2, 1, 2, 1, "uint8", <<0, 8>>),
                  Raster(2, 1, 2, 1, "uint8", <<4, 0>>),
                  Raster(2, 1, 2, 1, "float32", <<2, 2>>),
                  Raster(3, 1, 2, 1, "uint8", <<8, 8>>)},
     clims |-> {ClimAuto, ClimPair(0, 8), ClimPair(0, 0), ClimPair(3, 3),
                ClimPair(8, 4)},
     gammas |-> {3}, cmaps |-> {"grays"}, formats |-> {FmtNone, FmtStr(TagR8)},
     interpolations |-> {"nearest"}, methods |-> {"auto"}, linear |-> {TRUE}]

NextScale ==
    \/ CallInit(ScaleInputs)
    \/ CallSetData(ScaleInputs)
    \/ CallSetClim(ScaleInputs)
    \/ CallDraw

SpecScale == Init /\ [][NextScale]_vars

----------------------------------------------------------------------------
(* Helpers of the properties *)

\* the number of times x occurs in the sequence s
Count(s, x) == Cardinality({i \in DOMAIN s : s[i] = x})

\* s is a prefix of t
IsPrefix(s, t) == Len(s) <= Len(t) /\ SubSeq(t, 1, Len(s)) = s

\* the four flags shared by all views are clear
SharedFlagsClear ==
    /\ ~need_interpolation_update
    /\ ~need_texture_upload
    /\ ~need_colortransform_update
    /\ ~need_vertex_update

\* a draw is the last call and it went past the test for a raster
DrawProceeded == last.op = "draw" /\ last.ret # "False"

\* a draw is the last call and it ran to completion
DrawCompleted == last.op = "draw" /\ last.ret = "None"

----------------------------------------------------------------------------
(* C1 *)

\* the rebuild steps in the order the schedule fixes
C1_Schedule == <<"interpolation", "texture", "colortransform", "vertex", "method">>

\* whether a step of the schedule finds its flag set in a draw on view v that
\* starts in the current state: the flag itself, and for the colortransform
\* rebuild also the upload that precedes it and sets its flag
C1_Due(step, v) ==
    CASE step = "interpolation" -> need_interpolation_update
      [] step = "texture" -> need_texture_upload
      [] step = "colortransform" -> need_colortransform_update \/ need_texture_upload
      [] step = "vertex" -> need_vertex_update
      [] step = "method" -> views[v].need_method_update

\* C1: a draw that goes past the test for a raster runs exactly the steps
\* whose flag is set, in the order interpolation, texture upload,
\* colortransform, vertex, method (up to the step that raises, if one does);
\* a step whose flag is clear changes nothing of what it owns; a draw that
\* completes leaves every flag it tested clear; and a chain rebuilt by the
\* draw holds the normalized clim of the texture as the draw's upload left it.
C1_FixedOrder ==
    [][ (last'.op = "draw" /\ last'.ret # "False") =>
          LET v == last'.n
              due == SelectSeq(C1_Schedule, LAMBDA st : C1_Due(st, v))
          IN /\ IsPrefix(last'.steps, due)
             /\ last'.err = "none" => last'.steps = due
             /\ last'.err = "none" =>
                    /\ ~need_interpolation_update' /\ ~need_texture_upload'
                    /\ ~need_colortransform_update' /\ ~need_vertex_update'
                    /\ ~views'[v].need_method_update
             /\ ~need_interpolation_update =>
                    /\ program'.get_data = program.get_data
                    /\ program'.shape = program.shape
                    /\ texture'.interpolation = texture.interpolation
             /\ ~need_texture_upload => texture' = [texture EXCEPT
                    !.interpolation = texture'.interpolation]
             /\ ~C1_Due("colortransform", v) =>
                    program'.color_transform = program.color_transform
             /\ ~need_vertex_update => subdiv' = subdiv
             /\ ~views[v].need_method_update => views' = views
             /\ (last'.err = "none" /\ C1_Due("colortransform", v)) =>
                    /\ clim_normalized(texture').err = "none"
                    /\ program'.color_transform.clim = clim_normalized(texture').val
      ]_vars

\* a draw that re-uploaded the texture and rebuilt the chain from the limits
\* that upload recorded, in CPU-scaled mode
C1_Witness ==
    /\ last.op = "draw"
    /\ last.steps = <<"texture", "colortransform">>
    /\ texture.data_limits.kind = "pair"
    /\ program.color_transform.clim = clim_normalized(texture).val

----------------------------------------------------------------------------
(* C3 *)

\* C3: whatever calls preceded it, one draw uploads the texture at most once
\* and rebuilds the color transform chain at most once.
C3_AtMostOnce ==
    last.op = "draw" =>
        /\ Count(last.steps, "texture") <= 1
        /\ Count(last.steps, "colortransform") <= 1

\* a draw after calls other than set clim / set gamma that did both
C3_Witness ==
    /\ last.op = "draw"
    /\ last.arg = "other"
    /\ Count(last.steps, "texture") = 1
    /\ Count(last.steps, "colortransform") = 1
    /\ need_interpolation_update = FALSE

----------------------------------------------------------------------------
(* C6 *)

\* C6: while no raster is assigned a draw returns False, raises nothing, runs
\* no rebuild step and leaves every flag, the texture, the program, the
\* geometry and every view's state as they were.
C6_SkipWithoutData ==
    [][ (~data.present /\ last'.op = "draw") =>
          /\ last'.ret = "False"
          /\ last'.err = "none"
          /\ last'.steps = <<>>
          /\ UNCHANGED <<need_interpolation_update, need_texture_upload,
                         need_colortransform_update, need_vertex_update,
                         texture, program, subdiv, views, data>>
      ]_vars

\* a skipped draw, with every flag still set
C6_Witness ==
    /\ last.op = "draw"
    /\ last.ret = "False"
    /\ ~data.present
    /\ need_interpolation_update /\ need_texture_upload
    /\ need_colortransform_update /\ need_vertex_update
    /\ views[1].need_method_update

----------------------------------------------------------------------------
(* C10 *)

\* C10: constructing with texture_format 'auto' and no data succeeds, warns,
\* and yields a CPU-scaled texture (no internal format, no GPU-side scaling).
C10_AutoWithoutData ==
    (last.op = "init" /\ last.arg = "auto" /\ last.n = 0) =>
        /\ last.err = "none"
        /\ phase = "ready"
        /\ last.warn # {}
        /\ texture.internalformat.kind = "none"
        /\ ~texture.scale_texture_gpu

----------------------------------------------------------------------------
(* C2 *)

\* C2: a draw that follows a completed draw with only set clim / set gamma
\* calls in between (no set_data, no set colormap) does not rebuild the color
\* transform chain.
C2_NoRebuildAfterClimGamma ==
    [][ (since_draw = "clim_gamma" /\ last'.op = "draw") =>
            Count(last'.steps, "colortransform") = 0 ]_vars

----------------------------------------------------------------------------
(* C4 *)

\* C4: after construction the four shared flags and the visual's own
\* method-rebuild flag are set, a view is created with its method-rebuild flag
\* set, and after a draw on a view that runs to completion the four shared
\* flags and that view's method-rebuild flag are clear.
C4_FlagsSetThenClear ==
    /\ (last.op = "init" /\ last.err = "none") =>
           /\ need_interpolation_update /\ need_texture_upload
           /\ need_colortransform_update /\ need_vertex_update
           /\ views[1].need_method_update
    /\ last.op = "view" => views[last.n].need_method_update
    /\ DrawCompleted => (SharedFlagsClear /\ ~views[last.n].need_method_update)

\* a completed draw on a second view, after which the first view still waits
\* for its method selection
C4_Witness ==
    /\ DrawCompleted
    /\ last.n = 2
    /\ SharedFlagsClear
    /\ ~views[2].need_method_update
    /\ views[1].need_method_update

----------------------------------------------------------------------------
(* C5 *)

\* the method a view uses for a configured method m
C5_MethodFor(m, linear) ==
    IF m = "auto" THEN (IF linear THEN "subdivide" ELSE "impostor") ELSE m

\* C5: when set method has changed the configured method to another valid
\* name, the next draw on a view selects the method again: after it the view's
\* method in use is the one the new configuration stands for.
C5_SetMethodTakesEffect ==
    [][ (/\ last.op = "set_method" /\ last.n = 1
         /\ method \in ValidMethods
         /\ last'.op = "draw" /\ last'.err = "none" /\ last'.ret = "None") =>
            views'[last'.n].method_used =
                C5_MethodFor(method, views[last'.n].linear) ]_vars

----------------------------------------------------------------------------
(* C7 *)

\* C7 as stated: between two draws at most one set clim / set gamma call
\* writes a parameter into the chain, however many calls there are.
C7_AtMostOnePush == [][ ~(last.pushed /\ last'.pushed) ]_vars

\* C7 as amended: a set clim / set gamma call writes its parameter into the
\* existing chain at once, one write per call: when the call succeeds with
\* the colortransform-rebuild flag clear, the chain's clim (the normalized
\* clim of the texture) or gamma is replaced in place and nothing else of the
\* chain changes; when the flag is set or the call raises, the chain is
\* untouched.  The call never sets the colortransform-rebuild flag, and the
\* following draw rebuilds the chain at most once.
C7_PushPerCall ==
    [][ /\ (last'.op \in {"set_clim", "set_gamma"}) =>
              /\ need_colortransform_update' = need_colortransform_update
              /\ last'.pushed = (~need_colortransform_update /\ last'.err = "none")
              /\ ~last'.pushed => program' = program
              /\ (last'.pushed /\ last'.op = "set_gamma") =>
                     program' = [program EXCEPT !.color_transform.gamma = gamma']
              /\ (last'.pushed /\ last'.op = "set_clim") =>
                     program' = [program EXCEPT
                         !.color_transform.clim = clim_normalized(texture').val]
        /\ (last'.op = "draw") => Count(last'.steps, "colortransform") <= 1
      ]_vars

\* the second of two consecutive calls that each wrote into the chain: a set
\* clim within the limits the last upload recorded, then a set gamma
C7_Witness ==
    /\ last.op = "set_gamma"
    /\ last.pushed
    /\ since_draw = "clim_gamma"
    /\ texture.data_limits = ClimPairF32(0, 8)
    /\ texture.clim = ClimPair(3, 3)
    /\ program.color_transform.gamma = 3
    /\ program.color_transform.clim = clim_normalized(texture).val
    /\ ~need_colortransform_update
    /\ ~need_texture_upload

----------------------------------------------------------------------------
(* C8 *)

\* C8: set method with a name other than 'auto', 'subdivide', 'impostor'
\* raises, and leaves the configured method and every view's method in use
\* as they were.
C8_RejectedMethodAtomic ==
    [][ (last'.op = "set_method" /\ last'.arg \notin ValidMethods) =>
            /\ last'.err = "ValueError"
            /\ method' = method
            /\ \A v \in DOMAIN views : views'[v].method_used = views[v].method_used
      ]_vars

----------------------------------------------------------------------------
(* C9 *)

\* the arguments the setters reject
C9_Rejected(call) ==
    \/ call.op = "set_clim" /\ call.arg \in {"str", "notpair"}
    \/ call.op = "set_gamma" /\ call.n <= 0
    \/ call.op = "set_interpolation" /\ call.arg \notin InterpolationNames

\* C9: set clim with a string other than 'auto' or with a value that is no
\* pair, set gamma with a value <= 0 and set interpolation with a name outside
\* the catalog each raise ValueError and leave the stored clim, gamma and
\* interpolation, the texture, the chain and every dirty flag as they were.
C9_RejectedUnchanged ==
    [][ C9_Rejected(last') =>
            /\ last'.err = "ValueError"
            /\ UNCHANGED <<texture, gamma, interpolation, program, data,
                           need_interpolation_update, need_texture_upload,
                           need_colortransform_update, need_vertex_update, views>>
      ]_vars

\* a rejected set clim after a completed draw: the resolved clim is kept and
\* no flag is set
C9_Witness ==
    /\ last.op = "set_clim"
    /\ last.arg = "notpair"
    /\ last.err = "ValueError"
    /\ texture.clim.kind = "pair"
    /\ SharedFlagsClear

----------------------------------------------------------------------------
(* C11 *)

\* C11: after a draw on a view that ran to completion with a valid method
\* configured, the view's method in use is what the configuration stands for
\* at that draw: 'subdivide' / 'impostor' by the linearity of the view's
\* transform for 'auto', the explicit choice otherwise.
C11_MethodMatchesConfig ==
    (DrawCompleted /\ method \in ValidMethods) =>
        views[last.n].method_used =
            (IF method = "auto"
             THEN (IF views[last.n].linear THEN "subdivide" ELSE "impostor")
             ELSE method)

----------------------------------------------------------------------------
(* C12 *)

\* C12: after a draw that went past the test for a raster while a convolution
\* kernel is selected, the lookup function in use is that kernel's and its
\* shape parameter is (cols, rows) of the raster assigned.
C12_KernelShapeIsRasterSize ==
    (DrawProceeded /\ interpolation \notin {"nearest", "bilinear"}) =>
        /\ program.get_data = interpolation
        /\ interpolation \in DOMAIN program.shape
        /\ program.shape[interpolation] = Size(data)

----------------------------------------------------------------------------
(* C13 *)

\* C13: after a draw that went past the test for a raster, the texture's
\* filter mode is 'linear' exactly when the interpolation selected is
\* 'bilinear' and 'nearest' otherwise, and the lookup function in use is the
\* catalog's entry for the interpolation selected.
C13_FilterModeFollowsInterpolation ==
    DrawProceeded =>
        /\ texture.interpolation = (IF interpolation = "bilinear" THEN "linear" ELSE "nearest")
        /\ program.get_data = interpolation
        /\ interpolation \in InterpolationNames

\* a draw that switched from a convolution kernel to 'bilinear'
C13_Witness ==
    /\ DrawProceeded
    /\ last.steps = <<"interpolation">>
    /\ interpolation = "bilinear"
    /\ texture.interpolation = "linear"
    /\ program.u_kernel

----------------------------------------------------------------------------
(* C14 *)

\* the draw that leads to the next state uploaded the texture
C14_Uploads == last'.op = "draw" /\ Count(last'.steps, "texture") = 1

\* C14 as stated: whenever a raster is assigned and the texture-upload flag
\* is clear the stored clim is a numeric pair; an upload with clim 'auto'
\* stores (min, max) of a single-band raster and (0, 1) for a multi-band
\* raster, and an upload with a numeric clim stores the same two limits.
C14_ClimResolvedSameLimits ==
    [][ /\ (data'.present /\ ~need_texture_upload') => texture'.clim.kind = "pair"
        /\ (C14_Uploads /\ texture.clim.kind = "auto" /\ IsLuminance(data)) =>
               /\ texture'.clim.lo = SeqMin(data.vals)
               /\ texture'.clim.hi = SeqMax(data.vals)
        /\ (C14_Uploads /\ texture.clim.kind = "auto" /\ ~IsLuminance(data)) =>
               /\ texture'.clim.lo = 0
               /\ texture'.clim.hi = 2
        /\ (C14_Uploads /\ texture.clim.kind = "pair") =>
               /\ texture'.clim.lo = texture.clim.lo
               /\ texture'.clim.hi = texture.clim.hi
      ]_vars

\* C14 as amended: whenever a raster is assigned and the texture-upload flag
\* is clear the stored clim is a numeric pair.  An upload of a single-band
\* raster stores the limits as float32 numbers: (min, max) of the raster for
\* 'auto', the given limits narrowed to float32 for a numeric clim (equal to
\* the given limits only when those are float32 values).  An upload of a
\* multi-band raster stores (0, 1) for 'auto' and keeps a numeric clim as it is.
C14_ClimResolvedAsFloat32 ==
    [][ /\ (data'.present /\ ~need_texture_upload') => texture'.clim.kind = "pair"
        /\ (C14_Uploads /\ texture.clim.kind = "auto" /\ IsLuminance(data)) =>
               texture'.clim = ClimPairF32(SeqMin(data.vals), SeqMax(data.vals))
        /\ (C14_Uploads /\ texture.clim.kind = "auto" /\ ~IsLuminance(data)) =>
               texture'.clim = ClimPair(0, 2)
        /\ (C14_Uploads /\ texture.clim.kind = "pair" /\ IsLuminance(data)) =>
               texture'.clim = ClimPairF32(texture.clim.lo, texture.clim.hi)
        /\ (C14_Uploads /\ texture.clim.kind = "pair" /\ ~IsLuminance(data)) =>
               texture'.clim = texture.clim
      ]_vars

\* an upload of a single-band raster has narrowed a numeric clim that is no
\* float32 value
C14_Witness ==
    /\ last.op = "draw"
    /\ Count(last.steps, "texture") = 1
    /\ IsLuminance(data)
    /\ texture.clim = ClimPairF32(3, 3)
    /\ texture.clim # ClimPair(3, 3)
    /\ ~need_texture_upload

----------------------------------------------------------------------------
(* C15 *)

\* C15: an upload rescales the samples on the CPU exactly when the raster is
\* single-band and the texture is not scaled on the GPU: then each sample v
\* is uploaded as (v - lo) / (hi - lo) for the resolved clim (lo, hi) with
\* lo < hi; a multi-band raster, and any raster of a GPU-scaled texture, is
\* uploaded with its samples unchanged.
C15_CpuRescaleOnlySingleBand ==
    [][ (last'.op = "draw" /\ Count(last'.steps, "texture") = 1) =>
          LET c == texture'.clim
          IN IF IsLuminance(data) /\ ~texture.scale_texture_gpu
             THEN /\ texture'.uploaded = scale_data_on_cpu(data, c)
                  /\ c.lo < c.hi =>
                         texture'.uploaded =
                             [i \in DOMAIN data.vals |->
                                 Quot(data.vals[i] - c.lo, c.hi - c.lo)]
             ELSE texture'.uploaded = [i \in DOMAIN data.vals |-> Num(data.vals[i])]
      ]_vars

\* an upload of a single-band raster, rescaled on the CPU into [0, 1]
C15_Witness ==
    /\ last.op = "draw"
    /\ Count(last.steps, "texture") = 1
    /\ IsLuminance(data)
    /\ ~texture.scale_texture_gpu
    /\ texture.clim = ClimPairF32(0, 8)
    /\ texture.uploaded = <<Quot(0, 8), Quot(8, 8)>>
    /\ data.vals = <<0, 8>>

----------------------------------------------------------------------------
(* C16 *)

\* the channel letters of an internalformat tag, in order
C16_ChannelLetters(tag) == SelectSeq(tag, LAMBDA ch : ch \in {"r", "g", "b", "a"})

\* the channel count the constructor's data stands for
C16_Channels == IF last.n = 0 THEN 4 ELSE last.n

\* C16: a texture constructed with a texture_format other than None for data
\* of 1, 3 or 4 channels has an internalformat whose channel letters are
\* exactly 'r', 'rgb' or 'rgba', never a mix.
C16_ChannelPrefixExact ==
    (last.op = "init" /\ last.err = "none" /\ last.arg # "none"
        /\ C16_Channels \in {1, 3, 4}) =>
        /\ texture.internalformat.kind = "str"
        /\ C16_ChannelLetters(texture.internalformat.tag) = RgbaPrefix(C16_Channels)

----------------------------------------------------------------------------
(* C17 *)

\* C17: a texture constructed with an element type of the table as
\* texture_format gets the table's tag for that type, with the channel prefix
\* substituted, and raises nothing; with an element type outside the table
\* the constructor raises ValueError and no texture exists.
C17_TableTagOrUnsupported ==
    /\ (last.op = "init" /\ last.arg \in SupportedDTypes) =>
           /\ last.err = "none"
           /\ texture.internalformat =
                  FmtStr(StrReplace(texture_dtype_format(last.arg), "r",
                                    RgbaPrefix(IF last.n = 0 THEN 4 ELSE last.n)))
    /\ (last.op = "init" /\ last.arg \in {"bool", "int64"}) =>
           /\ last.err = "ValueError"
           /\ phase = "failed"
           /\ texture = NoTexture

----------------------------------------------------------------------------
(* C18 *)

\* C18: in every state set clim('auto') raises nothing, stores 'auto', sets
\* the texture-upload flag and writes nothing into the existing chain.
C18_AutoClimAccepted ==
    [][ (last'.op = "set_clim" /\ last'.arg = "auto") =>
            /\ last'.err = "none"
            /\ ~last'.pushed
            /\ program' = program
            /\ texture' = [texture EXCEPT !.clim = ClimAuto]
            /\ need_texture_upload'
      ]_vars

----------------------------------------------------------------------------
(* C19 *)

\* C19: after a draw that ran to completion the chain's stages are those for
\* the band count of the raster assigned: band-reduce, clamp, gamma, colormap
\* for a single-band raster; identity, clamp, gamma and no colormap for a
\* raster of several bands.
C19_TopologyMatchesBands ==
    DrawCompleted =>
        /\ program.color_transform.present
        /\ program.color_transform.stages =
               (IF IsLuminance(data)
                THEN <<"c2l", "apply_clim_float", "apply_gamma_float", "cmap">>
                ELSE <<"null_color_transform", "apply_clim", "apply_gamma">>)
        /\ program.color_transform.cmap = (IF IsLuminance(data) THEN cmap ELSE "none")

\* a draw, not the first, after a 4-band raster replaced a raster of another
\* shape: the chain now has the three stages of multi-band data
C19_Witness ==
    /\ DrawCompleted
    /\ last.steps = <<"texture", "colortransform", "vertex">>
    /\ data.ndim = 3 /\ data.bands = 4
    /\ Len(program.color_transform.stages) = 3

----------------------------------------------------------------------------
(* C20 *)

\* C20: whenever the visual exists and both the colortransform-rebuild flag
\* and the texture-upload flag are clear, the chain's gamma is the gamma
\* stored and the chain's clamp limits are the normalized limits computed
\* from the clim stored.
C20_ChainParametersCurrent ==
    (phase = "ready" /\ ~need_colortransform_update /\ ~need_texture_upload) =>
        /\ program.color_transform.present
        /\ program.color_transform.gamma = gamma
        /\ clim_normalized(texture).err = "none"
        /\ program.color_transform.clim = clim_normalized(texture).val

\* after a draw, a set clim within the uploaded limits has replaced the
\* chain's clamp limits in place; the chain's gamma is the gamma stored
C20_Witness ==
    /\ last.op = "set_clim"
    /\ last.pushed
    /\ ~need_colortransform_update
    /\ ~need_texture_upload
    /\ gamma = 3
    /\ program.color_transform.gamma = 3
    /\ texture.clim = ClimPair(3, 3)
    /\ program.color_transform.clim = <<Quot(3, 8), Quot(3, 8)>>

----------------------------------------------------------------------------
(* C21 *)

\* C21: method selection state is kept per view.  A draw on a view leaves
\* every other view's state (its method-rebuild flag, its method in use, its
\* bindings and transforms) as it was.  A draw that goes past the test for a
\* raster on a view where no method selection has run yet runs it, unless an
\* earlier step of that draw raises; when the four shared flags are already
\* clear, method selection is the only step of that draw and it selects by
\* the configured method and that view's own transform.
C21_MethodStatePerView ==
    [][ (last'.op = "draw") =>
          LET v == last'.n
          IN /\ DOMAIN views' = DOMAIN views
             /\ \A w \in DOMAIN views : w # v => views'[w] = views[w]
             /\ (last'.ret # "False" /\ views[v].method_used = "none") =>
                    \/ /\ Count(last'.steps, "method") = 1
                       /\ views'[v].method_used # "none"
                    \/ /\ last'.err # "none"
                       /\ Count(last'.steps, "method") = 0
             /\ (SharedFlagsClear /\ views[v].method_used = "none") =>
                    /\ last'.steps = <<"method">>
                    /\ views'[v].method_used =
                           (IF method = "auto"
                            THEN (IF views[v].linear THEN "subdivide" ELSE "impostor")
                            ELSE method)
      ]_vars

\* the first draw on a second view, after a draw on the first view cleared
\* the shared flags: it ran method selection alone and chose another method
\* than the first view uses, whose state it left alone
C21_Witness ==
    /\ DrawCompleted
    /\ last.n = 2
    /\ last.steps = <<"method">>
    /\ ~views[1].need_method_update
    /\ views[1].method_used = "subdivide"
    /\ views[2].method_used = "impostor"
    /\ ~views[2].need_method_update

----------------------------------------------------------------------------
(* C22 *)

\* C22: a draw rebuilds the geometry of the subdivided grid, once it has been
\* built, only if the grid or the raster's pixel size (cols, rows) differs
\* from what the previous rebuild used; set method, set clim, set gamma, set
\* colormap, set interpolation and a set_data of equal pixel size cause no
\* rebuild.
C22_VertexRebuildOnlyOnSizeChange ==
    [][ (last'.op = "draw" /\ Count(last'.steps, "vertex") = 1 /\ subdiv.built) =>
            (subdiv.grid # grid \/ subdiv.size # Size(data)) ]_vars

----------------------------------------------------------------------------
(* C23 *)

\* C23: a set clim with a numeric pair sets the texture-upload flag exactly
\* when the texture is not scaled on the GPU, a previous upload has recorded
\* data limits, and the new clim reaches outside them (its min below the
\* recorded min or its max above the recorded max); otherwise the flag stays
\* as it was, and with GPU-side scaling it always stays as it was.
C23_NumericClimUpload ==
    [][ (last'.op = "set_clim" /\ last'.arg = "pair") =>
          LET c == texture'.clim
              dl == texture.data_limits
              outside == /\ ~texture.scale_texture_gpu
                         /\ dl.kind = "pair"
                         /\ (c.lo < dl.lo \/ c.hi > dl.hi)
          IN /\ need_texture_upload' = (need_texture_upload \/ outside)
             /\ texture.scale_texture_gpu => need_texture_upload' = need_texture_upload
      ]_vars

\* after a draw that recorded the data limits of a CPU-scaled texture, a set
\* clim with a wider pair has set the texture-upload flag
C23_Witness ==
    /\ last.op = "set_clim"
    /\ last.arg = "pair"
    /\ since_draw = "clim_gamma"
    /\ ~texture.scale_texture_gpu
    /\ texture.data_limits = ClimPairF32(3, 3)
    /\ texture.clim = ClimPair(0, 8)
    /\ need_texture_upload
    /\ ~need_colortransform_update

----------------------------------------------------------------------------
(* C24 *)

\* C24: the scaling mode is fixed at construction.  A constructor that
\* succeeds sets the GPU-side-scaling flag to (the texture_format request was
\* not None), and no later call changes the flag.  After every upload the
\* recorded data limits are absent when the texture is scaled on the GPU and
\* are the clim that upload resolved when it is not; a GPU-scaled texture
\* never has data limits, so one and the same rule of clim normalization
\* applies throughout.
C24_ScalingModeFixed ==
    [][ /\ (last'.op = "init" /\ last'.err = "none") =>
               texture'.scale_texture_gpu = (last'.arg # "none")
        /\ phase = "ready" =>
               texture'.scale_texture_gpu = texture.scale_texture_gpu
        /\ (last'.op = "draw" /\ Count(last'.steps, "texture") = 1) =>
               /\ texture'.clim.kind = "pair"
               /\ texture'.data_limits =
                      (IF texture.scale_texture_gpu THEN ClimNone ELSE texture'.clim)
        /\ texture'.scale_texture_gpu => texture'.data_limits = ClimNone
      ]_vars

\* an upload to a GPU-scaled texture resolved the clim from the raster and
\* recorded no data limits
C24_Witness ==
    /\ last.op = "draw"
    /\ Count(last.steps, "texture") = 1
    /\ texture.scale_texture_gpu
    /\ texture.internalformat.kind = "str"
    /\ texture.clim = ClimPairF32(0, 8)
    /\ texture.data_limits = ClimNone
    /\ texture.uploaded = <<Num(0), Num(8)>>

----------------------------------------------------------------------------
(* C25 *)

\* the draw that leads to the next state uploaded a single-band raster to a
\* CPU-scaled texture with a resolved clim whose range is not positive
C25_ZeroRangeUpload ==
    /\ last'.op = "draw"
    /\ Count(last'.steps, "texture") = 1
    /\ IsLuminance(data)
    /\ ~texture.scale_texture_gpu
    /\ texture'.clim.hi - texture'.clim.lo <= 0

\* C25 as stated: such an upload stores the same value for every sample, 1
\* when the sample at position (0, 0) of the raster assigned is non-zero and
\* 0 when it is zero, and divides nothing.
C25_FlatByRasterCorner ==
    [][ C25_ZeroRangeUpload =>
            texture'.uploaded =
                [i \in DOMAIN data.vals |->
                    IF data.vals[1] # 0 THEN Num(1) ELSE Num(0)] ]_vars

\* C25 as amended: such an upload stores the same value for every sample and
\* divides nothing; the value is 1 when the sample at position (0, 0) after
\* the subtraction of clim.min is non-zero, that is when the corner sample of
\* the raster differs from the resolved clim.min, and 0 when it equals it.
C25_FlatByShiftedCorner ==
    [][ C25_ZeroRangeUpload =>
            texture'.uploaded =
                [i \in DOMAIN data.vals |->
                    IF data.vals[1] # texture'.clim.lo THEN Num(1) ELSE Num(0)] ]_vars

\* a zero-range upload of a raster whose corner sample is zero and differs
\* from clim.min: every sample is uploaded as 1
C25_Witness ==
    /\ last.op = "draw"
    /\ Count(last.steps, "texture") = 1
    /\ ~texture.scale_texture_gpu
    /\ data.vals = <<0, 8>>
    /\ texture.clim = ClimPairF32(3, 3)
    /\ texture.uploaded = <<Num(1), Num(1)>>

====
